---------------------------- MODULE Spec2Model ----------------------------
(***************************************************************************)
(* Model of the RunCam device request/response engine of                   *)
(* src/src/main/io/rcdevice.c: the pending-request ring                    *)
(* (watingResponseQueue), the transmit path                                *)
(* (runcamDeviceSendRequestAndWaitingResp), the timeout/retry supervisor   *)
(* (getWaitingResponse) and the poll-driven receive loop (rcdeviceReceive).*)
(*                                                                         *)
(* The serial port is open (runcamDeviceInit only talks to a port it could *)
(* open, and rcdeviceReceive dereferences the port unconditionally).  The  *)
(* millisecond clock is bounded by MaxTime, far below the 2^32 wrap of     *)
(* timeUs_t, and timeouts are positive, as in every caller of the file     *)
(* (200 and 5000 ms).                                                      *)
(***************************************************************************)
EXTENDS Integers, Sequences, FiniteSets, TLC

VARIABLES
    watingResponseQueue, \* the ring: buffer, headPos, tailPos, itemCount
    rxBuf,               \* unread bytes of the serial port, oldest first
    lastTx,              \* the frame most recently written to the serial port
    txCount,             \* ghost: frames written on behalf of each request
    cbLog,               \* ghost: parserFunc invocations, in order
    shiftLog,            \* ghost: userInfo of each context shifted out, in order
    reqs,                \* ghost: every send-request call made so far
    now,                 \* millis()
    delivered            \* ghost: bytes the device has put on the line

vars == <<watingResponseQueue, rxBuf, lastTx, txCount, cbLog, shiftLog, reqs, now, delivered>>

----------------------------------------------------------------------------
(* Bounds of the model *)

\* slots of the ring (set in rcdevice.h; here a size of the model)
MAX_WAITING_RESPONSES == 2
\* send-request calls in one behaviour
MaxRequests == 3
\* last value of the millisecond clock
MaxTime == 4
\* unread bytes the serial port can hold
MaxRx == 2
\* bytes the device sends in one behaviour
MaxDeviceBytes == 3

----------------------------------------------------------------------------
(* Constants of rcdevice.h *)

RCDEVICE_PROTOCOL_HEADER == 204
RCDEVICE_PROTOCOL_COMMAND_GET_DEVICE_INFO == 0
RCDEVICE_PROTOCOL_COMMAND_CAMERA_CONTROL == 1
RCDEVICE_PROTOCOL_COMMAND_5KEY_SIMULATION_PRESS == 2
RCDEVICE_PROTOCOL_COMMAND_5KEY_SIMULATION_RELEASE == 3
RCDEVICE_PROTOCOL_COMMAND_5KEY_CONNECTION == 4

RCDEVICE_PROTOCOL_RCSPLIT_VERSION == 0
RCDEVICE_PROTOCOL_VERSION_1_0 == 1

RCDEVICE_RESP_PENDING == "pending"
RCDEVICE_RESP_SUCCESS == "success"
RCDEVICE_RESP_INCORRECT_CRC == "incorrect-crc"
RCDEVICE_RESP_TIMEOUT == "timeout"

\* capacity of recvBuf
RCDEVICE_PROTOCOL_MAX_PACKET_SIZE == 64

\* a context pointer that points nowhere; a context pointer is a slot index
NULL == 0 - 1

----------------------------------------------------------------------------
(* Bytes and checksums *)

RECURSIVE BitXor(_, _, _)
BitXor(a, b, n) ==
    IF n = 0 THEN 0
    ELSE (((a % 2) + (b % 2)) % 2) + (2 * BitXor(a \div 2, b \div 2, n - 1))

\* the values of a uint8_t that occur as a byte or a checksum
Bytes == 0 .. 255

\* a ^ b on uint8_t, tabulated once
XorTable == [a \in Bytes |-> [b \in Bytes |-> BitXor(a, b, 8)]]

Xor8(a, b) == XorTable[a][b]

\* i times: crc = (crc & 0x80) ? (crc << 1) ^ poly : (crc << 1), on uint8_t
RECURSIVE ShiftPoly(_, _, _)
ShiftPoly(crc, poly, i) ==
    IF i = 0 THEN crc
    ELSE ShiftPoly(IF crc >= 128 THEN BitXor((crc * 2) % 256, poly, 8)
                                 ELSE (crc * 2) % 256,
                   poly, i - 1)

\* the eight shifts of each checksum, tabulated once: polynomial 0xD5 for
\* crc8_dvb_s2 and 0x31 for calcCRCFromData
DvbS2Table == [c \in Bytes |-> ShiftPoly(c, 213, 8)]
Poly31Table == [c \in Bytes |-> ShiftPoly(c, 49, 8)]

\* common/crc.c: CRC-8/DVB-S2, one byte folded into crc
crc8_dvb_s2(crc, a) == DvbS2Table[Xor8(crc, a)]

RECURSIVE crc8_dvb_s2_update(_, _)
crc8_dvb_s2_update(crc, data) ==
    IF data = <<>> THEN crc
    ELSE crc8_dvb_s2_update(crc8_dvb_s2(crc, Head(data)), Tail(data))

RECURSIVE calcCRCFromData(_)
calcCRCFromData(data) ==
    IF data = <<>> THEN 0
    ELSE Poly31Table[Xor8(calcCRCFromData(SubSeq(data, 1, Len(data) - 1)),
                          data[Len(data)])]

----------------------------------------------------------------------------
(* Expected response lengths *)

expectedResponsesLength ==
    << [command |-> RCDEVICE_PROTOCOL_COMMAND_GET_DEVICE_INFO,         reponseLength |-> 5],
       [command |-> RCDEVICE_PROTOCOL_COMMAND_5KEY_SIMULATION_PRESS,   reponseLength |-> 2],
       [command |-> RCDEVICE_PROTOCOL_COMMAND_5KEY_SIMULATION_RELEASE, reponseLength |-> 2],
       [command |-> RCDEVICE_PROTOCOL_COMMAND_5KEY_CONNECTION,         reponseLength |-> 3] >>

RECURSIVE RespLenFrom(_, _)
RespLenFrom(command, i) ==
    IF i > Len(expectedResponsesLength) THEN 0
    ELSE IF expectedResponsesLength[i].command = command
         THEN expectedResponsesLength[i].reponseLength
         ELSE RespLenFrom(command, i + 1)

runcamDeviceGetRespLen(command) == RespLenFrom(command, 1)

----------------------------------------------------------------------------
(* Contexts and the ring *)

\* a context after memset(&responseCtx, 0, ...), and every slot of the
\* zero-initialised global ring
ZeroCtx ==
    [ command          |-> 0,
      maxRetryTimes    |-> 0,
      expectedRespLen  |-> 0,
      timeout          |-> 0,
      timeoutTimestamp |-> 0,
      parserFunc       |-> FALSE,
      protocolVer      |-> 0,
      paramData        |-> <<>>,
      userInfo         |-> 0,
      recvBuf          |-> <<>>,
      recvRespLen      |-> 0,
      sentAt           |-> 0,
      result           |-> RCDEVICE_RESP_PENDING ]

Slots == 0 .. (MAX_WAITING_RESPONSES - 1)

EmptyQueue ==
    [ buffer    |-> [i \in Slots |-> ZeroCtx],
      headPos   |-> 0,
      tailPos   |-> 0,
      itemCount |-> 0 ]

\* the push, had it written the slot after advancing the tail
rcdeviceRespCtxQueuePushRespCtx_StoresAtNewTail(queue, respCtx) ==
    IF (queue.itemCount + 1) > MAX_WAITING_RESPONSES
       \/ queue.tailPos >= MAX_WAITING_RESPONSES
    THEN [ok |-> FALSE, queue |-> queue]
    ELSE LET newTailPos == IF queue.tailPos + 1 >= MAX_WAITING_RESPONSES
                           THEN 0 ELSE queue.tailPos + 1
         IN  [ok    |-> TRUE,
              queue |-> [queue EXCEPT !.buffer[newTailPos] = respCtx,
                                      !.itemCount = @ + 1,
                                      !.tailPos = newTailPos]]

\* the push, had it not looked at itemCount
rcdeviceRespCtxQueuePushRespCtx_NoFullCheck(queue, respCtx) ==
    IF queue.tailPos >= MAX_WAITING_RESPONSES
    THEN [ok |-> FALSE, queue |-> queue]
    ELSE LET newTailPos == IF queue.tailPos + 1 >= MAX_WAITING_RESPONSES
                           THEN 0 ELSE queue.tailPos + 1
         IN  [ok    |-> TRUE,
              queue |-> [queue EXCEPT !.buffer[queue.tailPos] = respCtx,
                                      !.itemCount = @ + 1,
                                      !.tailPos = newTailPos]]

rcdeviceRespCtxQueuePushRespCtx(queue, respCtx) ==
    IF (queue.itemCount + 1) > MAX_WAITING_RESPONSES
       \/ queue.tailPos >= MAX_WAITING_RESPONSES
    THEN [ok |-> FALSE, queue |-> queue]
    ELSE LET newTailPos == IF queue.tailPos + 1 >= MAX_WAITING_RESPONSES
                           THEN 0 ELSE queue.tailPos + 1
         IN  [ok    |-> TRUE,
              queue |-> [queue EXCEPT !.buffer[queue.tailPos] = respCtx,
                                      !.itemCount = @ + 1,
                                      !.tailPos = newTailPos]]

rcdeviceRespCtxQueuePeekFront(queue) ==
    IF queue.itemCount = 0 \/ queue.headPos >= MAX_WAITING_RESPONSES
    THEN NULL
    ELSE queue.headPos

\* the shift, had it not wrapped the head index
rcdeviceRespCtxQueueShift_NoWrap(queue) ==
    IF queue.itemCount = 0 \/ queue.headPos >= MAX_WAITING_RESPONSES
    THEN [ctx |-> NULL, queue |-> queue]
    ELSE [ctx   |-> queue.headPos,
          queue |-> [queue EXCEPT !.itemCount = @ - 1,
                                  !.headPos = queue.headPos + 1]]

rcdeviceRespCtxQueueShift(queue) ==
    IF queue.itemCount = 0 \/ queue.headPos >= MAX_WAITING_RESPONSES
    THEN [ctx |-> NULL, queue |-> queue]
    ELSE LET newHeadPos == IF queue.headPos + 1 >= MAX_WAITING_RESPONSES
                           THEN 0 ELSE queue.headPos + 1
         IN  [ctx   |-> queue.headPos,
              queue |-> [queue EXCEPT !.itemCount = @ - 1,
                                      !.headPos = newHeadPos]]

----------------------------------------------------------------------------
(* The engine, as functions of the machine state m = [q, rx, lastTx,       *)
(* txCount, cbLog, shiftLog, reqs] and the value t that millis() returns.  *)
(* A context pointer is the index of its slot in m.q.buffer.               *)

\* parserFunc(respCtx), when the context has one: the call is logged
CallParser(m, p) ==
    LET respCtx == m.q.buffer[p]
    IN  IF respCtx.parserFunc
        THEN [m EXCEPT !.cbLog = Append(@, [userInfo |-> respCtx.userInfo,
                                            result   |-> respCtx.result])]
        ELSE m

\* rcdeviceRespCtxQueueShift(&watingResponseQueue), and the log of who left
ShiftHead(m) ==
    LET s == rcdeviceRespCtxQueueShift(m.q)
    IN  [m EXCEPT !.q = s.queue,
                  !.shiftLog = IF s.ctx = NULL THEN @
                               ELSE Append(@, m.q.buffer[s.ctx].userInfo)]

runcamDeviceFlushRxBuffer(m) == [m EXCEPT !.rx = <<>>]

\* owner is the request the frame is written for (ghost)
runcamDeviceSendPacket(m, command, paramData, owner) ==
    LET body == <<RCDEVICE_PROTOCOL_HEADER, command>> \o paramData
    IN  [m EXCEPT !.lastTx = Append(body, crc8_dvb_s2_update(0, body)),
                  !.txCount[owner] = @ + 1]

\* the send, had it written the frame only for a request it could queue
runcamDeviceSendRequestAndWaitingResp_SendsIfQueued(m, t, commandID, paramData, tiemout, maxRetryTimes, userInfo, parseFunc) ==
    LET flushed == runcamDeviceFlushRxBuffer(m)
        responseCtx ==
            [ZeroCtx EXCEPT !.command = commandID,
                            !.maxRetryTimes = maxRetryTimes,
                            !.expectedRespLen = runcamDeviceGetRespLen(commandID),
                            !.timeout = tiemout,
                            !.timeoutTimestamp = t + tiemout,
                            !.parserFunc = parseFunc,
                            !.protocolVer = RCDEVICE_PROTOCOL_VERSION_1_0,
                            !.paramData = paramData,
                            !.userInfo = userInfo,
                            !.sentAt = t]
        pushed == rcdeviceRespCtxQueuePushRespCtx(flushed.q, responseCtx)
        queued == [flushed EXCEPT !.q = pushed.queue,
                                  !.reqs = Append(@, [pushed |-> pushed.ok])]
    IN  IF pushed.ok
        THEN runcamDeviceSendPacket(queued, commandID, paramData, userInfo)
        ELSE queued

\* the send, had it marked the context as a legacy (RunCam Split) exchange
runcamDeviceSendRequestAndWaitingResp_LegacyVersion(m, t, commandID, paramData, tiemout, maxRetryTimes, userInfo, parseFunc) ==
    LET flushed == runcamDeviceFlushRxBuffer(m)
        responseCtx ==
            [ZeroCtx EXCEPT !.command = commandID,
                            !.maxRetryTimes = maxRetryTimes,
                            !.expectedRespLen = runcamDeviceGetRespLen(commandID),
                            !.timeout = tiemout,
                            !.timeoutTimestamp = t + tiemout,
                            !.parserFunc = parseFunc,
                            !.protocolVer = RCDEVICE_PROTOCOL_RCSPLIT_VERSION,
                            !.paramData = paramData,
                            !.userInfo = userInfo,
                            !.sentAt = t]
        pushed == rcdeviceRespCtxQueuePushRespCtx(flushed.q, responseCtx)
        queued == [flushed EXCEPT !.q = pushed.queue,
                                  !.reqs = Append(@, [pushed |-> pushed.ok])]
    IN  runcamDeviceSendPacket(queued, commandID, paramData, userInfo)

runcamDeviceSendRequestAndWaitingResp(m, t, commandID, paramData, tiemout, maxRetryTimes, userInfo, parseFunc) ==
    LET flushed == runcamDeviceFlushRxBuffer(m)
        responseCtx ==
            [ZeroCtx EXCEPT !.command = commandID,
                            !.maxRetryTimes = maxRetryTimes,
                            !.expectedRespLen = runcamDeviceGetRespLen(commandID),
                            !.timeout = tiemout,
                            !.timeoutTimestamp = t + tiemout,
                            !.parserFunc = parseFunc,
                            !.protocolVer = RCDEVICE_PROTOCOL_VERSION_1_0,
                            !.paramData = paramData,
                            !.userInfo = userInfo,
                            !.sentAt = t]
        pushed == rcdeviceRespCtxQueuePushRespCtx(flushed.q, responseCtx)
        queued == [flushed EXCEPT !.q = pushed.queue,
                                  !.reqs = Append(@, [pushed |-> pushed.ok])]
    IN  runcamDeviceSendPacket(queued, commandID, paramData, userInfo)

\* the loop condition of getWaitingResponse on a context
Expired(respCtx, currentTimeUs) ==
    /\ respCtx.timeoutTimestamp # 0
    /\ currentTimeUs > respCtx.timeoutTimestamp

\* Resend, had it reported the retry to the parser
Resend_CallsParser(m, p, currentTimeUs) ==
    LET respCtx == m.q.buffer[p]
        sent == runcamDeviceSendPacket(m, respCtx.command, respCtx.paramData,
                                       respCtx.userInfo)
    IN  CallParser([sent EXCEPT !.q.buffer[p].timeoutTimestamp = currentTimeUs + respCtx.timeout,
                                !.q.buffer[p].maxRetryTimes = @ - 1], p)

\* Resend, had it left the retry budget alone
Resend_NoDecrement(m, p, currentTimeUs) ==
    LET respCtx == m.q.buffer[p]
        sent == runcamDeviceSendPacket(m, respCtx.command, respCtx.paramData,
                                       respCtx.userInfo)
    IN  [sent EXCEPT !.q.buffer[p].timeoutTimestamp = currentTimeUs + respCtx.timeout]

\* Resend, had it started the reception over
Resend_ClearsReceived(m, p, currentTimeUs) ==
    LET respCtx == m.q.buffer[p]
        sent == runcamDeviceSendPacket(m, respCtx.command, respCtx.paramData,
                                       respCtx.userInfo)
    IN  [sent EXCEPT !.q.buffer[p].timeoutTimestamp = currentTimeUs + respCtx.timeout,
                     !.q.buffer[p].maxRetryTimes = @ - 1,
                     !.q.buffer[p].recvBuf = <<>>,
                     !.q.buffer[p].recvRespLen = 0]

\* the branch maxRetryTimes > 0: resend and wait again
Resend(m, p, currentTimeUs) ==
    LET respCtx == m.q.buffer[p]
        sent == runcamDeviceSendPacket(m, respCtx.command, respCtx.paramData,
                                       respCtx.userInfo)
    IN  [sent EXCEPT !.q.buffer[p].timeoutTimestamp = currentTimeUs + respCtx.timeout,
                     !.q.buffer[p].maxRetryTimes = @ - 1]

\* the branch with no retry left: report the timeout and dequeue
TimeOut(m, p) ==
    ShiftHead(CallParser([m EXCEPT !.q.buffer[p].result = RCDEVICE_RESP_TIMEOUT], p))

RECURSIVE getWaitingResponse(_, _)

\* getWaitingResponse, had it given up on an expired context with no retry
\* left without dequeuing it
getWaitingResponse_LeavesTimedOut(m, currentTimeUs) ==
    LET p == rcdeviceRespCtxQueuePeekFront(m.q)
    IN  IF p # NULL /\ Expired(m.q.buffer[p], currentTimeUs)
        THEN IF m.q.buffer[p].maxRetryTimes > 0
             THEN [m |-> Resend(m, p, currentTimeUs), respCtx |-> NULL]
             ELSE [m |-> m, respCtx |-> NULL]
        ELSE [m |-> m, respCtx |-> p]

\* getWaitingResponse, had it handed the context it just retried to the
\* reception step
getWaitingResponse_ReturnsRetried(m, currentTimeUs) ==
    LET p == rcdeviceRespCtxQueuePeekFront(m.q)
    IN  IF p # NULL /\ Expired(m.q.buffer[p], currentTimeUs)
        THEN IF m.q.buffer[p].maxRetryTimes > 0
             THEN [m |-> Resend(m, p, currentTimeUs), respCtx |-> p]
             ELSE getWaitingResponse(TimeOut(m, p), currentTimeUs)
        ELSE [m |-> m, respCtx |-> p]

\* getWaitingResponse, had it timed out one context and returned the next
\* without looking at its deadline
getWaitingResponse_OneTimeoutPerPass(m, currentTimeUs) ==
    LET p == rcdeviceRespCtxQueuePeekFront(m.q)
    IN  IF p # NULL /\ Expired(m.q.buffer[p], currentTimeUs)
        THEN IF m.q.buffer[p].maxRetryTimes > 0
             THEN [m |-> Resend(m, p, currentTimeUs), respCtx |-> NULL]
             ELSE [m |-> TimeOut(m, p),
                   respCtx |-> rcdeviceRespCtxQueuePeekFront(TimeOut(m, p).q)]
        ELSE [m |-> m, respCtx |-> p]

getWaitingResponse(m, currentTimeUs) ==
    LET p == rcdeviceRespCtxQueuePeekFront(m.q)
    IN  IF p # NULL /\ Expired(m.q.buffer[p], currentTimeUs)
        THEN IF m.q.buffer[p].maxRetryTimes > 0
             THEN [m |-> Resend(m, p, currentTimeUs), respCtx |-> NULL]
             ELSE getWaitingResponse(TimeOut(m, p), currentTimeUs)
        ELSE [m |-> m, respCtx |-> p]

\* recvBuf is zeroed by memset: a byte never written reads as 0
BufAt(buf, i) == IF i <= Len(buf) THEN buf[i] ELSE 0

\* the response check of a context whose recvRespLen reached expectedRespLen
Validate(ctx) ==
    IF ctx.protocolVer = RCDEVICE_PROTOCOL_RCSPLIT_VERSION
    THEN LET crcFromPacket == BufAt(ctx.recvBuf, 4)
             swapped == [i \in 1 .. (IF Len(ctx.recvBuf) > 4 THEN Len(ctx.recvBuf) ELSE 4)
                           |-> IF i = 4 THEN BufAt(ctx.recvBuf, 5)
                                        ELSE BufAt(ctx.recvBuf, i)]
             crc == calcCRCFromData(SubSeq(swapped, 1, 4))
         IN  [ctx EXCEPT !.recvBuf = swapped,
                         !.result = IF crc = crcFromPacket
                                    THEN RCDEVICE_RESP_SUCCESS
                                    ELSE RCDEVICE_RESP_INCORRECT_CRC]
    ELSE IF ctx.protocolVer = RCDEVICE_PROTOCOL_VERSION_1_0
    THEN [ctx EXCEPT !.result = IF crc8_dvb_s2_update(0, ctx.recvBuf) = 0
                                THEN RCDEVICE_RESP_SUCCESS
                                ELSE RCDEVICE_RESP_INCORRECT_CRC]
    ELSE ctx

\* ReadByte, had it stored the byte in the context pushed last
ReadByte_IntoNewest(m, p) ==
    LET newest == (m.q.tailPos + MAX_WAITING_RESPONSES - 1) % MAX_WAITING_RESPONSES
    IN  [m EXCEPT !.rx = Tail(@),
                  !.q.buffer[newest].recvBuf = Append(@, Head(m.rx)),
                  !.q.buffer[newest].recvRespLen = (@ + 1) % 256]

\* c = serialRead(...); recvBuf[recvRespLen] = c; recvRespLen += 1 (on a
\* uint8_t), for a recvRespLen within recvBuf
ReadByte(m, p) ==
    [m EXCEPT !.rx = Tail(@),
              !.q.buffer[p].recvBuf = Append(@, Head(m.rx)),
              !.q.buffer[p].recvRespLen = (@ + 1) % 256]

\* Complete, had it dequeued without calling the parser
Complete_SkipsParser(m, p) ==
    ShiftHead([m EXCEPT !.q.buffer[p] = Validate(@)])

\* Complete, had it spent a retry on a response that fails the check
Complete_RetriesBadCrc(m, p) ==
    LET checked == [m EXCEPT !.q.buffer[p] = Validate(@)]
        respCtx == checked.q.buffer[p]
    IN  IF respCtx.result = RCDEVICE_RESP_INCORRECT_CRC /\ respCtx.maxRetryTimes > 0
        THEN [runcamDeviceSendPacket(checked, respCtx.command, respCtx.paramData,
                                     respCtx.userInfo)
                 EXCEPT !.q.buffer[p].maxRetryTimes = @ - 1,
                        !.q.buffer[p].recvBuf = <<>>,
                        !.q.buffer[p].recvRespLen = 0,
                        !.q.buffer[p].result = RCDEVICE_RESP_PENDING]
        ELSE ShiftHead(CallParser(checked, p))

\* data received done: check it, call the parser, dequeue
Complete(m, p) ==
    ShiftHead(CallParser([m EXCEPT !.q.buffer[p] = Validate(@)], p))

RECURSIVE rcdeviceReceive(_, _)

\* the poll, had it read a byte for the head before looking at its deadline
rcdeviceReceive_ReadsThenChecks(m, t) ==
    LET p == rcdeviceRespCtxQueuePeekFront(m.q)
    IN  IF p # NULL /\ Len(m.rx) > 0
        THEN LET read == ReadByte(m, p)
             IN  IF read.q.buffer[p].recvRespLen = read.q.buffer[p].expectedRespLen
                 THEN Complete(read, p)
                 ELSE getWaitingResponse(read, t).m
        ELSE getWaitingResponse(m, t).m

\* the poll, had it returned as soon as a context was completed
rcdeviceReceive_StopsAfterComplete(m, t) ==
    LET g == getWaitingResponse(m, t)
        p == g.respCtx
    IN  IF p # NULL /\ Len(g.m.rx) > 0
        THEN LET read == ReadByte(g.m, p)
             IN  IF read.q.buffer[p].recvRespLen = read.q.buffer[p].expectedRespLen
                 THEN Complete(read, p)
                 ELSE rcdeviceReceive(read, t)
        ELSE g.m

rcdeviceReceive(m, t) ==
    LET g == getWaitingResponse(m, t)
        p == g.respCtx
    IN  IF p # NULL /\ Len(g.m.rx) > 0
        THEN LET read == ReadByte(g.m, p)
             IN  IF read.q.buffer[p].recvRespLen = read.q.buffer[p].expectedRespLen
                 THEN rcdeviceReceive(Complete(read, p), t)
                 ELSE rcdeviceReceive(read, t)
        ELSE g.m

----------------------------------------------------------------------------
(* The state machine *)

Machine ==
    [ q        |-> watingResponseQueue,
      rx       |-> rxBuf,
      lastTx   |-> lastTx,
      txCount  |-> txCount,
      cbLog    |-> cbLog,
      shiftLog |-> shiftLog,
      reqs     |-> reqs ]

Becomes(m) ==
    /\ watingResponseQueue' = m.q
    /\ rxBuf' = m.rx
    /\ lastTx' = m.lastTx
    /\ txCount' = m.txCount
    /\ cbLog' = m.cbLog
    /\ shiftLog' = m.shiftLog
    /\ reqs' = m.reqs

Requests == 1 .. MaxRequests

\* the send-request calls a caller makes: a press as its wrapper sends it
\* (the 200 ms scaled to 1, one retry), a connection request with a longer
\* timeout and no retry, and one command that is not in
\* expectedResponsesLength, sent without a parser
Calls ==
    { [ commandID |-> RCDEVICE_PROTOCOL_COMMAND_5KEY_SIMULATION_PRESS,
        paramData |-> <<1>>, tiemout |-> 1, maxRetryTimes |-> 1, parseFunc |-> TRUE ],
      [ commandID |-> RCDEVICE_PROTOCOL_COMMAND_5KEY_CONNECTION,
        paramData |-> <<1>>, tiemout |-> 2, maxRetryTimes |-> 0, parseFunc |-> TRUE ],
      [ commandID |-> RCDEVICE_PROTOCOL_COMMAND_CAMERA_CONTROL,
        paramData |-> <<1>>, tiemout |-> 1, maxRetryTimes |-> 0, parseFunc |-> FALSE ] }

\* the call that sends a command (each command has one call above)
CallOf(command) == CHOOSE call \in Calls : call.commandID = command

\* the bytes the device sends: <<0, 0>> and <<0, 0, 0>> are valid protocol
\* 1.0 frames, every sequence with a 1 in it is not
DeviceBytes == { 0, 1 }

Init ==
    /\ watingResponseQueue = EmptyQueue
    /\ rxBuf = <<>>
    /\ lastTx = <<>>
    /\ txCount = [i \in Requests |-> 0]
    /\ cbLog = <<>>
    /\ shiftLog = <<>>
    /\ reqs = <<>>
    /\ now = 0
    /\ delivered = 0

\* the state after one more send-request call; userInfo numbers the calls
Sent(m, call) ==
    runcamDeviceSendRequestAndWaitingResp(m, now, call.commandID, call.paramData,
        call.tiemout, call.maxRetryTimes, Len(m.reqs) + 1, call.parseFunc)

\* a caller sends a request
Send ==
    /\ Len(reqs) < MaxRequests
    /\ \E call \in Calls : Becomes(Sent(Machine, call))
    /\ UNCHANGED <<now, delivered>>

\* the periodic task polls the engine
Poll ==
    /\ Becomes(rcdeviceReceive(Machine, now))
    /\ UNCHANGED <<now, delivered>>

\* the device puts one byte on the line
Device ==
    /\ Len(rxBuf) < MaxRx
    /\ delivered < MaxDeviceBytes
    /\ \E c \in DeviceBytes : rxBuf' = Append(rxBuf, c)
    /\ delivered' = delivered + 1
    /\ UNCHANGED <<watingResponseQueue, lastTx, txCount, cbLog, shiftLog, reqs, now>>

\* a millisecond passes
Tick ==
    /\ now < MaxTime
    /\ now' = now + 1
    /\ UNCHANGED <<watingResponseQueue, rxBuf, lastTx, txCount, cbLog, shiftLog, reqs, delivered>>

Next == Send \/ Poll \/ Device \/ Tick

Spec == Init /\ [][Next]_vars

----------------------------------------------------------------------------
(* A device that keeps sending while a request with no expected response   *)
(* waits: the store recvBuf[recvRespLen] = c leaves recvBuf                *)

\* the next byte a poll reads is stored past the end of recvBuf
Overruns ==
    LET g == getWaitingResponse(Machine, now)
    IN  /\ g.respCtx # NULL
        /\ Len(g.m.rx) > 0
        /\ g.m.q.buffer[g.respCtx].recvRespLen >= RCDEVICE_PROTOCOL_MAX_PACKET_SIZE

\* what the store past the end of recvBuf can leave behind: the byte lands
\* where the engine does not look, or on the deadline that follows recvBuf
\* in the context; recvRespLen is incremented either way
OverrunOutcomes(m, p) ==
    LET read == [m EXCEPT !.rx = Tail(@),
                          !.q.buffer[p].recvRespLen = (@ + 1) % 256]
    IN  { read, [read EXCEPT !.q.buffer[p].timeoutTimestamp = Head(m.rx)] }

\* the caller sends one request whose command is not in
\* expectedResponsesLength
SendUnlisted ==
    /\ Len(reqs) = 0
    /\ \E call \in Calls :
          /\ runcamDeviceGetRespLen(call.commandID) = 0
          /\ Becomes(Sent(Machine, call))
    /\ UNCHANGED <<now, delivered>>

\* the device sends another byte as soon as the last one was read
Babble ==
    /\ watingResponseQueue.itemCount > 0
    /\ Len(rxBuf) = 0
    /\ rxBuf' = <<0>>
    /\ delivered' = delivered + 1
    /\ UNCHANGED <<watingResponseQueue, lastTx, txCount, cbLog, shiftLog, reqs, now>>

\* a poll whose reads stay within recvBuf
PollWithin ==
    /\ ~Overruns
    /\ Poll

\* a poll that stores a byte past the end of recvBuf, and then goes on as
\* the loop of rcdeviceReceive does
PollOverrun ==
    /\ Overruns
    /\ LET g == getWaitingResponse(Machine, now)
           p == g.respCtx
       IN  \E read \in OverrunOutcomes(g.m, p) :
              IF read.q.buffer[p].recvRespLen = read.q.buffer[p].expectedRespLen
              THEN Becomes(rcdeviceReceive(Complete(read, p), now))
              ELSE Becomes(rcdeviceReceive(read, now))
    /\ UNCHANGED <<now, delivered>>

BabbleNext == SendUnlisted \/ Babble \/ PollWithin \/ PollOverrun \/ Tick

BabbleSpec == Init /\ [][BabbleNext]_vars

----------------------------------------------------------------------------
(* What the properties speak of *)

TerminalResults ==
    { RCDEVICE_RESP_SUCCESS, RCDEVICE_RESP_INCORRECT_CRC, RCDEVICE_RESP_TIMEOUT }

\* the contexts in the ring, head first
QueueSeq(queue) ==
    [k \in 1 .. queue.itemCount |->
        queue.buffer[(queue.headPos + k - 1) % MAX_WAITING_RESPONSES]]

\* the requests whose context is in the ring
QueuedIds(queue) == { QueueSeq(queue)[k].userInfo : k \in 1 .. queue.itemCount }

\* the slot contents last written for request id
CtxById(queue, id) ==
    queue.buffer[CHOOSE s \in Slots : queue.buffer[s].userInfo = id]

\* how often the parser was called for request id
CbCount(log, id) == Cardinality({ i \in 1 .. Len(log) : log[i].userInfo = id })

\* how often the context of request id was shifted out
ShiftCount(log, id) == Cardinality({ i \in 1 .. Len(log) : log[i] = id })

\* the requests whose push succeeded, in push order
PushedIds ==
    SelectSeq([i \in 1 .. Len(reqs) |-> i], LAMBDA i : reqs[i].pushed)

\* request id leaves the ring in this step
Leaves(id) ==
    /\ id \in QueuedIds(watingResponseQueue)
    /\ id \notin QueuedIds(watingResponseQueue')

----------------------------------------------------------------------------
(* Two requests back to back, of which the device answers only the second  *)

\* the calls that await a response and report it
AnsweredCalls ==
    { call \in Calls : runcamDeviceGetRespLen(call.commandID) > 0 /\ call.parseFunc }

\* the caller sends two requests, one right after the other
SendBackToBack ==
    /\ Len(reqs) = 0
    /\ \E first \in AnsweredCalls, second \in AnsweredCalls :
          Becomes(Sent(Sent(Machine, first), second))
    /\ UNCHANGED <<now, delivered>>

\* the device puts the next byte of its response to the second request on
\* the line: a valid frame of expectedRespLen zero bytes
DeviceAnswersSecond ==
    /\ Len(reqs) = 2
    /\ Len(rxBuf) < MaxRx
    /\ delivered < CtxById(watingResponseQueue, 2).expectedRespLen
    /\ rxBuf' = Append(rxBuf, 0)
    /\ delivered' = delivered + 1
    /\ UNCHANGED <<watingResponseQueue, lastTx, txCount, cbLog, shiftLog, reqs, now>>

BackToBackNext == SendBackToBack \/ DeviceAnswersSecond \/ Poll \/ Tick

BackToBackSpec == Init /\ [][BackToBackNext]_vars

----------------------------------------------------------------------------
(* The engine under its scheduler: the periodic task polls at least once   *)
(* in every millisecond, and may poll more often                           *)

\* the clock moves on by a millisecond
ClockAdvances ==
    /\ now < MaxTime
    /\ now' = now + 1

\* a millisecond passes and the task polls
TickPoll ==
    /\ ClockAdvances
    /\ Becomes(rcdeviceReceive(Machine, now + 1))
    /\ UNCHANGED delivered

LiveNext == Send \/ Device \/ Poll \/ TickPoll

\* the clock keeps advancing, and in LiveNext it only does so with a poll
LiveSpec == Init /\ [][LiveNext]_vars /\ WF_now(ClockAdvances)

Max(a, b) == IF a > b THEN a ELSE b

\* the latest time at which the k-th context of the ring has left it when every
\* millisecond has a poll: each context, once at the head, is found expired at
\* the first poll after its deadline, and each retry it has left postpones
\* that by its timeout plus one
RECURSIVE DrainBy(_)
DrainBy(k) ==
    IF k = 0 THEN now + 1
    ELSE LET c == QueueSeq(watingResponseQueue)[k]
         IN  Max(DrainBy(k - 1), c.timeoutTimestamp + 1)
                + c.maxRetryTimes * (c.timeout + 1)

\* request id is in the ring, at a place from which the polls remove it
\* before the clock of the model stops
DueInTime(id) ==
    \E k \in 1 .. watingResponseQueue.itemCount :
        /\ QueueSeq(watingResponseQueue)[k].userInfo = id
        /\ DrainBy(k) <= MaxTime

----------------------------------------------------------------------------
(* C1 *)

\* C1: over any sequence of sends, polls, byte arrivals and clock advances,
\* the parser of a pushed context is called at most once, only with a terminal
\* result and only in the step that shifts the context out, never in a step
\* that resends its frame; the context is shifted out at most once, and at
\* that moment its parser (when it has one) has been called exactly once.
C1_CallbackOnceAtShift ==
    [][\A id \in Requests :
        LET called == CbCount(cbLog', id) - CbCount(cbLog, id)
            shifted == ShiftCount(shiftLog', id) - ShiftCount(shiftLog, id)
        IN  /\ CbCount(cbLog', id) <= 1
            /\ ShiftCount(shiftLog', id) <= 1
            /\ \A i \in 1 .. Len(cbLog') : cbLog'[i].result \in TerminalResults
            /\ called > 0 => /\ shifted = 1
                             /\ Leaves(id)
            /\ shifted > 0 => /\ Leaves(id)
                              /\ CtxById(watingResponseQueue, id).parserFunc
                                    => CbCount(cbLog', id) = 1
            /\ Leaves(id) => shifted = 1
            /\ (id \in QueuedIds(watingResponseQueue) /\ txCount'[id] > txCount[id])
                  => /\ called = 0
                     /\ id \in QueuedIds(watingResponseQueue')
    ]_vars

\* two contexts have left the ring with their parser called, one on a complete
\* valid response and one on a timeout after a resend
C1_Witness ==
    /\ \E i \in 1 .. Len(cbLog) : cbLog[i].result = RCDEVICE_RESP_SUCCESS
    /\ \E i \in 1 .. Len(cbLog) :
          /\ cbLog[i].result = RCDEVICE_RESP_TIMEOUT
          /\ txCount[cbLog[i].userInfo] = 2
          /\ ShiftCount(shiftLog, cbLog[i].userInfo) = 1

----------------------------------------------------------------------------
(* C2 *)

\* C2: a context that leaves the ring without having received a byte leaves it
\* timed out, after exactly maxRetries resends (maxRetries + 1 frames on the
\* wire), with one parser call reporting the timeout, and not before
\* (maxRetries + 1) * timeout has passed since the send; while a context is
\* queued the frames sent for it are the first plus one per retry used.
C2_SilentRequestTimesOut ==
    [][\A id \in Requests :
        /\ id \in QueuedIds(watingResponseQueue') =>
              LET c == CtxById(watingResponseQueue', id)
              IN  txCount'[id] = 1 + CallOf(c.command).maxRetryTimes - c.maxRetryTimes
        /\ (Leaves(id) /\ CtxById(watingResponseQueue', id).recvRespLen = 0) =>
              LET c == CtxById(watingResponseQueue', id)
                  call == CallOf(c.command)
              IN  /\ c.result = RCDEVICE_RESP_TIMEOUT
                  /\ txCount'[id] = call.maxRetryTimes + 1
                  /\ now >= c.sentAt + (call.maxRetryTimes + 1) * call.tiemout
                  /\ call.parseFunc =>
                        /\ CbCount(cbLog', id) = 1
                        /\ \E i \in 1 .. Len(cbLog') :
                              cbLog'[i] = [userInfo |-> id, result |-> RCDEVICE_RESP_TIMEOUT]
    ]_vars

\* a request with one retry that never saw a byte has timed out after two frames
C2_Witness ==
    \E i \in 1 .. Len(cbLog) :
        LET id == cbLog[i].userInfo
        IN  /\ cbLog[i].result = RCDEVICE_RESP_TIMEOUT
            /\ id \notin QueuedIds(watingResponseQueue)
            /\ \E s \in Slots :
                  /\ watingResponseQueue.buffer[s].userInfo = id
                  /\ watingResponseQueue.buffer[s].recvRespLen = 0
                  /\ CallOf(watingResponseQueue.buffer[s].command).maxRetryTimes = 1
            /\ txCount[id] = 2

----------------------------------------------------------------------------
(* C3 *)

\* C3: when two requests are sent back to back and the device answers only
\* the second, with a complete valid response, no byte of that response is
\* stored in the first request's receive buffer, whenever the bytes arrive,
\* and the parser is called for the first (timeout) before it is called for
\* the second (success).
C3_SecondNotMisattributed ==
    Len(reqs) = 2 =>
        /\ CtxById(watingResponseQueue, 1).recvRespLen = 0
        /\ \A i \in 1 .. Len(cbLog) :
              cbLog[i] = [userInfo |-> 2, result |-> RCDEVICE_RESP_SUCCESS] =>
                  /\ i = 2
                  /\ cbLog[1] = [userInfo |-> 1, result |-> RCDEVICE_RESP_TIMEOUT]

----------------------------------------------------------------------------
(* C4 *)

\* C4: when the head context expects L > 0 bytes, has not expired, and a poll
\* finds exactly one unread byte, then if fewer than L bytes have been read
\* after it no parser is called and the context stays at the head, and if it is
\* the L-th byte of a checksum-valid protocol 1.0 frame the context is shifted
\* out in that poll with result success and its parser called exactly once.
C4_ByteAtATime ==
    [][LET p == rcdeviceRespCtxQueuePeekFront(watingResponseQueue)
           c == watingResponseQueue.buffer[p]
           id == c.userInfo
           frame == Append(c.recvBuf, rxBuf[1])
       IN  ( /\ Poll
             /\ p # NULL
             /\ Len(rxBuf) = 1
             /\ ~Expired(c, now)
             /\ c.expectedRespLen > 0
             /\ c.recvRespLen < c.expectedRespLen )
           => IF c.recvRespLen + 1 < c.expectedRespLen
              THEN /\ cbLog' = cbLog
                   /\ shiftLog' = shiftLog
                   /\ rcdeviceRespCtxQueuePeekFront(watingResponseQueue') = p
                   /\ watingResponseQueue'.buffer[p].recvBuf = frame
                   /\ watingResponseQueue'.buffer[p].recvRespLen = c.recvRespLen + 1
              ELSE crc8_dvb_s2_update(0, frame) = 0 =>
                   /\ Len(shiftLog') > Len(shiftLog)
                   /\ shiftLog'[Len(shiftLog) + 1] = id
                   /\ id \notin QueuedIds(watingResponseQueue')
                   /\ watingResponseQueue'.buffer[p].result = RCDEVICE_RESP_SUCCESS
                   /\ c.parserFunc =>
                         /\ Len(cbLog') > Len(cbLog)
                         /\ cbLog'[Len(cbLog) + 1] =
                               [userInfo |-> id, result |-> RCDEVICE_RESP_SUCCESS]
                         /\ CbCount(cbLog, id) = 0
                         /\ CbCount(cbLog', id) = 1
    ]_vars

\* a context that expected three bytes got them in at least two polls and has
\* left the ring with its parser told success
C4_Witness ==
    \E i \in 1 .. Len(cbLog) :
        /\ cbLog[i].result = RCDEVICE_RESP_SUCCESS
        /\ cbLog[i].userInfo \notin QueuedIds(watingResponseQueue)
        /\ \E s \in Slots :
              /\ watingResponseQueue.buffer[s].userInfo = cbLog[i].userInfo
              /\ watingResponseQueue.buffer[s].expectedRespLen = 3
              /\ watingResponseQueue.buffer[s].recvRespLen = 3

----------------------------------------------------------------------------
(* C5 *)

\* C5: when the engine is polled in every millisecond, every context in the
\* ring is eventually shifted out of it, and leaves with a terminal result,
\* whatever the device sends and whatever the expected length of the context
\* and of the contexts ahead of it (stated for the contexts the polls can
\* remove before the clock of the model stops).
C5_EveryContextLeaves ==
    /\ [][\A id \in Requests :
            Leaves(id) =>
                CtxById(watingResponseQueue', id).result \in TerminalResults]_vars
    /\ \A id \in Requests :
          DueInTime(id) ~> (ShiftCount(shiftLog, id) = 1)

\* a context with no expected response waits behind a context with a retry
\* left, both silent so far, and both can be removed before the clock stops
C5_Witness ==
    /\ watingResponseQueue.itemCount = 2
    /\ QueueSeq(watingResponseQueue)[1].maxRetryTimes > 0
    /\ QueueSeq(watingResponseQueue)[2].expectedRespLen = 0
    /\ DueInTime(QueueSeq(watingResponseQueue)[2].userInfo)

----------------------------------------------------------------------------
(* C6 *)

\* C6: the contexts come out of the ring in the order they were pushed: the
\* shifted contexts are the first pushed ones, in push order, and the ring
\* holds the ones pushed after them, in push order from the head (which is
\* what peek-front returns).
C6_Fifo ==
    LET ids == PushedIds
        n == Len(shiftLog)
        p == rcdeviceRespCtxQueuePeekFront(watingResponseQueue)
    IN  /\ n + watingResponseQueue.itemCount = Len(ids)
        /\ \A i \in 1 .. n : shiftLog[i] = ids[i]
        /\ \A k \in 1 .. watingResponseQueue.itemCount :
              QueueSeq(watingResponseQueue)[k].userInfo = ids[n + k]
        /\ watingResponseQueue.itemCount > 0 =>
              /\ p # NULL
              /\ watingResponseQueue.buffer[p].userInfo = ids[n + 1]

\* more contexts have been pushed and shifted than the ring has slots, and
\* every push succeeded: head and tail have wrapped
C6_Witness ==
    /\ Len(shiftLog) > MAX_WAITING_RESPONSES
    /\ \A i \in 1 .. Len(reqs) : reqs[i].pushed

----------------------------------------------------------------------------
(* C7 *)

\* C7: a send-request call made while the ring holds MAX_WAITING_RESPONSES
\* contexts has its push return false and leaves itemCount, headPos, tailPos
\* and every slot of the ring as they were.
C7_PushOnFullRing ==
    [][( /\ Len(reqs') > Len(reqs)
         /\ watingResponseQueue.itemCount = MAX_WAITING_RESPONSES )
       => /\ ~reqs'[Len(reqs')].pushed
          /\ watingResponseQueue' = watingResponseQueue
    ]_vars

\* a request was sent while the ring was full, and the ring is still full
C7_Witness ==
    /\ Len(reqs) > MAX_WAITING_RESPONSES
    /\ ~reqs[Len(reqs)].pushed
    /\ watingResponseQueue.itemCount = MAX_WAITING_RESPONSES

----------------------------------------------------------------------------
(* C8 *)

\* C8: a request sent while the ring was full is in no slot of the ring, its
\* parser is never called and it is never shifted out, and exactly one frame
\* was written for it.
C8_DroppedRequest ==
    \A id \in 1 .. Len(reqs) :
        ~reqs[id].pushed =>
            /\ txCount[id] = 1
            /\ CbCount(cbLog, id) = 0
            /\ ShiftCount(shiftLog, id) = 0
            /\ \A s \in Slots : watingResponseQueue.buffer[s].userInfo # id

\* a request was dropped, and the polls after it have emptied the ring
C8_Witness ==
    /\ \E id \in 1 .. Len(reqs) : ~reqs[id].pushed
    /\ watingResponseQueue.itemCount = 0
    /\ Len(shiftLog) = MAX_WAITING_RESPONSES

----------------------------------------------------------------------------
(* C9 *)

\* C9: every context in the ring has recvRespLen <= expectedRespLen <= the
\* capacity of recvBuf, whatever command was sent (also one that is not in
\* expectedResponsesLength) and however many bytes the device delivers.
C9_LengthsOrdered ==
    \A k \in 1 .. watingResponseQueue.itemCount :
        LET c == QueueSeq(watingResponseQueue)[k]
        IN  /\ c.recvRespLen <= c.expectedRespLen
            /\ c.expectedRespLen <= RCDEVICE_PROTOCOL_MAX_PACKET_SIZE

----------------------------------------------------------------------------
(* C10 *)

\* C10: after any sequence of send-request calls and polls the ring is well
\* formed: itemCount is in 0 .. MAX_WAITING_RESPONSES, headPos and tailPos
\* are indices of slots, tailPos = (headPos + itemCount) mod
\* MAX_WAITING_RESPONSES, and peek-front and shift return no context exactly
\* when itemCount = 0.
C10_RingWellFormed ==
    LET q == watingResponseQueue
    IN  /\ q.itemCount \in 0 .. MAX_WAITING_RESPONSES
        /\ q.headPos \in Slots
        /\ q.tailPos \in Slots
        /\ q.tailPos = (q.headPos + q.itemCount) % MAX_WAITING_RESPONSES
        /\ (rcdeviceRespCtxQueuePeekFront(q) = NULL) <=> (q.itemCount = 0)
        /\ (rcdeviceRespCtxQueueShift(q).ctx = NULL) <=> (q.itemCount = 0)

\* the ring is full and its head is not slot 0: the tail has wrapped onto it
C10_Witness ==
    /\ watingResponseQueue.itemCount = MAX_WAITING_RESPONSES
    /\ watingResponseQueue.headPos > 0
    /\ watingResponseQueue.tailPos = watingResponseQueue.headPos

----------------------------------------------------------------------------
(* C11 *)

\* C11: when a poll finds the head context unexpired and the unread bytes
\* complete its expected length with bytes that fail the checksum, then in
\* that poll the context leaves the ring with result incorrect-crc, its
\* parser is called once with that result, and no frame is written for it
\* and no retry is spent, also when it has retries left; no frame is ever
\* written for a request that is not in the ring.
C11_BadCrcNoRetry ==
    [][LET p == rcdeviceRespCtxQueuePeekFront(watingResponseQueue)
           c == watingResponseQueue.buffer[p]
           id == c.userInfo
           need == c.expectedRespLen - c.recvRespLen
           frame == c.recvBuf \o SubSeq(rxBuf, 1, need)
           after == watingResponseQueue'.buffer[p]
       IN  /\ ( /\ Poll
                /\ p # NULL
                /\ ~Expired(c, now)
                /\ need > 0
                /\ need <= Len(rxBuf)
                /\ crc8_dvb_s2_update(0, frame) # 0 )
              => /\ Leaves(id)
                 /\ ShiftCount(shiftLog', id) = 1
                 /\ after.userInfo = id
                 /\ after.recvBuf = frame
                 /\ after.result = RCDEVICE_RESP_INCORRECT_CRC
                 /\ after.maxRetryTimes = c.maxRetryTimes
                 /\ txCount'[id] = txCount[id]
                 /\ c.parserFunc =>
                       /\ CbCount(cbLog, id) = 0
                       /\ CbCount(cbLog', id) = 1
                       /\ \E i \in 1 .. Len(cbLog') :
                             cbLog'[i] = [userInfo |-> id,
                                          result |-> RCDEVICE_RESP_INCORRECT_CRC]
           /\ \A r \in 1 .. Len(reqs) :
                 r \notin QueuedIds(watingResponseQueue) => txCount'[r] = txCount[r]
    ]_vars

\* a context that still had a retry has left the ring on a response that
\* failed the checksum, after the one frame of its send
C11_Witness ==
    \E i \in 1 .. Len(cbLog) :
        /\ cbLog[i].result = RCDEVICE_RESP_INCORRECT_CRC
        /\ cbLog[i].userInfo \notin QueuedIds(watingResponseQueue)
        /\ txCount[cbLog[i].userInfo] = 1
        /\ \E s \in Slots :
              /\ watingResponseQueue.buffer[s].userInfo = cbLog[i].userInfo
              /\ watingResponseQueue.buffer[s].maxRetryTimes > 0
              /\ watingResponseQueue.buffer[s].result = RCDEVICE_RESP_INCORRECT_CRC

----------------------------------------------------------------------------
(* C12 *)

\* C12: a step appends bytes only to a context that is in the ring, that is
\* at the head when the bytes are read (every context ahead of it has left
\* the ring in that step), and whose deadline has not passed at the time of
\* the poll, with no retry spent on it in that step; a poll that finds the
\* head expired consumes no byte for it and either resends its frame or
\* times it out.
C12_TimeoutBeforeRead ==
    [][/\ \A s \in Slots :
            LET c == watingResponseQueue.buffer[s]
                after == watingResponseQueue'.buffer[s]
            IN  (after.userInfo = c.userInfo /\ after.recvBuf # c.recvBuf)
                => \E k \in 1 .. watingResponseQueue.itemCount :
                      /\ s = (watingResponseQueue.headPos + k - 1) % MAX_WAITING_RESPONSES
                      /\ \A j \in 1 .. (k - 1) :
                            QueueSeq(watingResponseQueue)[j].userInfo
                               \notin QueuedIds(watingResponseQueue')
                      /\ now' <= c.timeoutTimestamp
                      /\ after.timeoutTimestamp = c.timeoutTimestamp
                      /\ after.maxRetryTimes = c.maxRetryTimes
                      /\ txCount'[c.userInfo] = txCount[c.userInfo]
       /\ LET p == rcdeviceRespCtxQueuePeekFront(watingResponseQueue)
              c == watingResponseQueue.buffer[p]
              after == watingResponseQueue'.buffer[p]
          IN  (Poll /\ p # NULL /\ now > c.timeoutTimestamp)
              => /\ after.recvBuf = c.recvBuf
                 /\ after.recvRespLen = c.recvRespLen
                 /\ IF c.maxRetryTimes > 0
                    THEN /\ txCount'[c.userInfo] = txCount[c.userInfo] + 1
                         /\ rxBuf' = rxBuf
                         /\ c.userInfo \in QueuedIds(watingResponseQueue')
                    ELSE /\ after.result = RCDEVICE_RESP_TIMEOUT
                         /\ Leaves(c.userInfo)
    ]_vars

\* a context has timed out, and the context now at the head has bytes read
\* for it within its deadline while more bytes wait
C12_Witness ==
    /\ \E i \in 1 .. Len(cbLog) : cbLog[i].result = RCDEVICE_RESP_TIMEOUT
    /\ watingResponseQueue.itemCount > 0
    /\ QueueSeq(watingResponseQueue)[1].recvRespLen > 0
    /\ QueueSeq(watingResponseQueue)[1].recvRespLen
          < QueueSeq(watingResponseQueue)[1].expectedRespLen
    /\ now <= QueueSeq(watingResponseQueue)[1].timeoutTimestamp

----------------------------------------------------------------------------
(* C13 *)

\* C13: a poll that finds the head context expired with retries left writes
\* exactly one frame, the frame of the original request (same command and
\* parameters), sets the deadline of the context to now + timeout, takes one
\* from its retries, calls no parser, removes nothing from the ring, reads
\* no byte from the serial port and changes nothing else in the ring.
C13_RetryPass ==
    [][LET p == rcdeviceRespCtxQueuePeekFront(watingResponseQueue)
           c == watingResponseQueue.buffer[p]
           id == c.userInfo
           body == <<RCDEVICE_PROTOCOL_HEADER, c.command>>
                      \o CallOf(c.command).paramData
       IN  ( /\ Poll
             /\ p # NULL
             /\ now > c.timeoutTimestamp
             /\ c.maxRetryTimes > 0 )
           => /\ txCount' = [txCount EXCEPT ![id] = @ + 1]
              /\ lastTx' = Append(body, crc8_dvb_s2_update(0, body))
              /\ watingResponseQueue' =
                    [watingResponseQueue EXCEPT
                        !.buffer[p].timeoutTimestamp = now + c.timeout,
                        !.buffer[p].maxRetryTimes = c.maxRetryTimes - 1]
              /\ cbLog' = cbLog
              /\ shiftLog' = shiftLog
              /\ rxBuf' = rxBuf
    ]_vars

\* the head context has just been retried, in a poll that left a byte unread
C13_Witness ==
    /\ watingResponseQueue.itemCount > 0
    /\ LET c == QueueSeq(watingResponseQueue)[1]
       IN  /\ txCount[c.userInfo] = 2
           /\ c.maxRetryTimes = 0
           /\ c.timeoutTimestamp = now + c.timeout
           /\ c.recvRespLen = 0
    /\ Len(rxBuf) > 0

----------------------------------------------------------------------------
(* C14 *)

\* where the parser call for request id stands in a log (0: nowhere)
CbIndex(log, id) ==
    IF CbCount(log, id) = 0 THEN 0
    ELSE CHOOSE i \in 1 .. Len(log) : log[i].userInfo = id

\* C14: when a poll finds the first k contexts of the ring all expired with
\* no retry left, all k are timed out and shifted out in that poll, in queue
\* order, their parsers called in that order with result timeout; and when
\* getWaitingResponse returns, and after any poll, the head of the ring is
\* not an expired context with no retry left.
C14_ExpiredChain ==
    [][Poll =>
        /\ LET g == getWaitingResponse(Machine, now)
               p == rcdeviceRespCtxQueuePeekFront(g.m.q)
           IN  p # NULL =>
                  ~ ( /\ Expired(g.m.q.buffer[p], now)
                      /\ g.m.q.buffer[p].maxRetryTimes = 0 )
        /\ LET p == rcdeviceRespCtxQueuePeekFront(watingResponseQueue')
           IN  p # NULL =>
                  ~ ( /\ Expired(watingResponseQueue'.buffer[p], now)
                      /\ watingResponseQueue'.buffer[p].maxRetryTimes = 0 )
        /\ \A k \in 1 .. watingResponseQueue.itemCount :
              (\A j \in 1 .. k :
                  /\ Expired(QueueSeq(watingResponseQueue)[j], now)
                  /\ QueueSeq(watingResponseQueue)[j].maxRetryTimes = 0)
              => /\ Len(shiftLog') >= Len(shiftLog) + k
                 /\ \A j \in 1 .. k :
                       LET c == QueueSeq(watingResponseQueue)[j]
                       IN  /\ shiftLog'[Len(shiftLog) + j] = c.userInfo
                           /\ c.userInfo \notin QueuedIds(watingResponseQueue')
                           /\ CtxById(watingResponseQueue', c.userInfo).result
                                 = RCDEVICE_RESP_TIMEOUT
                           /\ c.parserFunc =>
                                 /\ CbIndex(cbLog', c.userInfo) > Len(cbLog)
                                 /\ cbLog'[CbIndex(cbLog', c.userInfo)].result
                                       = RCDEVICE_RESP_TIMEOUT
                                 /\ \A i \in 1 .. (j - 1) :
                                       CbIndex(cbLog', QueueSeq(watingResponseQueue)[i].userInfo)
                                          < CbIndex(cbLog', c.userInfo)
    ]_vars

\* two connection requests sent in the same millisecond have both timed
\* out: the first poll after their common deadline removed both
C14_Witness ==
    /\ Len(shiftLog) >= 2
    /\ \E i \in 1 .. (Len(cbLog) - 1) :
          /\ cbLog[i].result = RCDEVICE_RESP_TIMEOUT
          /\ cbLog[i + 1].result = RCDEVICE_RESP_TIMEOUT
          /\ cbLog[i + 1].userInfo = cbLog[i].userInfo + 1
          /\ \E s, u \in Slots :
                /\ watingResponseQueue.buffer[s].userInfo = cbLog[i].userInfo
                /\ watingResponseQueue.buffer[u].userInfo = cbLog[i + 1].userInfo
                /\ watingResponseQueue.buffer[s].timeout = watingResponseQueue.buffer[u].timeout
                /\ watingResponseQueue.buffer[s].sentAt = watingResponseQueue.buffer[u].sentAt
                /\ CallOf(watingResponseQueue.buffer[s].command).maxRetryTimes = 0
                /\ CallOf(watingResponseQueue.buffer[u].command).maxRetryTimes = 0
                /\ watingResponseQueue.buffer[s].recvRespLen = 0
                /\ watingResponseQueue.buffer[u].recvRespLen = 0

----------------------------------------------------------------------------
(* C15 *)

\* the head context is unexpired and the unread bytes complete its expected
\* length and leave at least one more for the context behind it, which is
\* unexpired as well
CompletesWithBytesLeft ==
    /\ watingResponseQueue.itemCount >= 2
    /\ LET c == QueueSeq(watingResponseQueue)[1]
           next == QueueSeq(watingResponseQueue)[2]
       IN  /\ ~Expired(c, now)
           /\ ~Expired(next, now)
           /\ c.expectedRespLen > c.recvRespLen
           /\ c.expectedRespLen - c.recvRespLen < Len(rxBuf)

\* C15: in every reachable state a call of rcdeviceReceive returns, having
\* consumed unread bytes and shifted contexts only; when it returns the ring
\* is empty, or its head was retried in this call, or no unread byte is
\* left; and when the head completes with bytes left over, the first of them
\* is stored in the next context in the same call.
C15_PollReturns ==
    LET r == rcdeviceReceive(Machine, now)
        p == rcdeviceRespCtxQueuePeekFront(r.q)
        head == r.q.buffer[p]
    IN  /\ \/ p = NULL
           \/ Len(r.rx) = 0
           \/ /\ r.txCount[head.userInfo] = txCount[head.userInfo] + 1
              /\ head.timeoutTimestamp = now + head.timeout
        /\ Len(r.rx) <= Len(rxBuf)
        /\ r.rx = SubSeq(rxBuf, Len(rxBuf) - Len(r.rx) + 1, Len(rxBuf))
        /\ r.q.itemCount <= watingResponseQueue.itemCount
        /\ Len(r.shiftLog) - Len(shiftLog)
              = watingResponseQueue.itemCount - r.q.itemCount
        /\ CompletesWithBytesLeft =>
              LET c == QueueSeq(watingResponseQueue)[1]
                  next == QueueSeq(watingResponseQueue)[2]
                  after == CtxById(r.q, next.userInfo)
              IN  /\ c.userInfo \notin QueuedIds(r.q)
                  /\ after.recvRespLen >= 1
                  /\ after.recvBuf[1]
                        = rxBuf[c.expectedRespLen - c.recvRespLen + 1]

\* a poll is due that completes the head context and has a byte left for
\* the context behind it
C15_Witness ==
    /\ CompletesWithBytesLeft
    /\ QueueSeq(watingResponseQueue)[2].recvRespLen = 0

----------------------------------------------------------------------------
(* C16 *)

\* every context behind the head is as its send left it
BehindHeadUntouched ==
    \A k \in 2 .. watingResponseQueue.itemCount :
        LET c == QueueSeq(watingResponseQueue)[k]
        IN  /\ c.recvRespLen = 0
            /\ c.recvBuf = <<>>
            /\ c.result = RCDEVICE_RESP_PENDING
            /\ c.maxRetryTimes = CallOf(c.command).maxRetryTimes
            /\ c.timeoutTimestamp = c.sentAt + c.timeout

\* C16: in every reachable state each context of the ring that is not at
\* the head has received nothing, has a pending result, its original retries
\* and its original deadline; and a step changes a stored context only when
\* that context is at the head at that moment: it is in the ring and every
\* context ahead of it has left the ring in that step.
C16_OnlyHeadActive ==
    /\ []BehindHeadUntouched
    /\ [][\A s \in Slots :
            LET c == watingResponseQueue.buffer[s]
                after == watingResponseQueue'.buffer[s]
            IN  (after.userInfo = c.userInfo /\ after # c)
                => \E k \in 1 .. watingResponseQueue.itemCount :
                      /\ s = (watingResponseQueue.headPos + k - 1) % MAX_WAITING_RESPONSES
                      /\ \A j \in 1 .. (k - 1) :
                            QueueSeq(watingResponseQueue)[j].userInfo
                               \notin QueuedIds(watingResponseQueue')
       ]_vars

\* the head has used a retry and received a byte, while the context behind
\* it is past its deadline and still as its send left it
C16_Witness ==
    /\ watingResponseQueue.itemCount = 2
    /\ LET c == QueueSeq(watingResponseQueue)[1]
           next == QueueSeq(watingResponseQueue)[2]
       IN  /\ c.recvRespLen > 0
           /\ c.maxRetryTimes < CallOf(c.command).maxRetryTimes
           /\ now > next.timeoutTimestamp
           /\ next.recvRespLen = 0
           /\ next.result = RCDEVICE_RESP_PENDING

----------------------------------------------------------------------------
(* C17 *)

----------------------------------------------------------------------------
(* C18 *)

\* C18: a step that resends the frame of a queued context leaves its recvBuf
\* and recvRespLen as they were; and as long as a context is stored, a step
\* only appends to its recvBuf, so the bytes read before a retry stay and
\* count towards expectedRespLen, and the bytes read after it follow them.
C18_ResendKeepsReceived ==
    [][\A s \in Slots :
        LET c == watingResponseQueue.buffer[s]
            after == watingResponseQueue'.buffer[s]
        IN  after.userInfo = c.userInfo =>
               /\ ( /\ c.userInfo \in QueuedIds(watingResponseQueue)
                    /\ txCount'[c.userInfo] > txCount[c.userInfo] )
                  => /\ after.recvBuf = c.recvBuf
                     /\ after.recvRespLen = c.recvRespLen
                     /\ after.maxRetryTimes = c.maxRetryTimes - 1
               /\ Len(after.recvBuf) >= Len(c.recvBuf)
               /\ SubSeq(after.recvBuf, 1, Len(c.recvBuf)) = c.recvBuf
               /\ after.recvRespLen = Len(after.recvBuf)
    ]_vars

\* the head context has received a byte, its deadline has passed and it has
\* a retry left: the poll that is due resends its frame
C18_Witness ==
    /\ watingResponseQueue.itemCount > 0
    /\ LET c == QueueSeq(watingResponseQueue)[1]
       IN  /\ c.recvRespLen > 0
           /\ c.recvRespLen < c.expectedRespLen
           /\ c.maxRetryTimes > 0
           /\ Expired(c, now)

----------------------------------------------------------------------------
(* C19 *)

RECURSIVE SumOver(_, _)
\* the sum of f over the set S
SumOver(f, S) ==
    IF S = {} THEN 0
    ELSE LET x == CHOOSE x \in S : TRUE
         IN  f[x] + SumOver(f, S \ {x})

\* C19: no byte that waits unread while a request is at the head of the ring
\* with an unexpired deadline is discarded: a step that takes bytes from the
\* serial port (a poll or a send-request call) takes them from the front and
\* appends every one of them to the recvBuf of a context of the ring, the
\* head first.
C19_NoByteDiscarded ==
    [][LET p == rcdeviceRespCtxQueuePeekFront(watingResponseQueue)
           grown == [s \in Slots |->
                       IF watingResponseQueue'.buffer[s].userInfo
                             = watingResponseQueue.buffer[s].userInfo
                       THEN Len(watingResponseQueue'.buffer[s].recvBuf)
                               - Len(watingResponseQueue.buffer[s].recvBuf)
                       ELSE 0]
       IN  ( /\ p # NULL
             /\ ~Expired(watingResponseQueue.buffer[p], now)
             /\ Len(rxBuf) > 0
             /\ delivered' = delivered
             /\ rxBuf' # rxBuf )
           => \E k \in 1 .. Len(rxBuf) :
                 /\ rxBuf' = SubSeq(rxBuf, k + 1, Len(rxBuf))
                 /\ SumOver(grown, Slots) = k
                 /\ grown[p] >= 1
    ]_vars

----------------------------------------------------------------------------
(* C20 *)

\* C20: every context that is or was in the ring has protocolVer =
\* RCDEVICE_PROTOCOL_VERSION_1_0, so the check of a completed context is
\* never the legacy one (recvBuf[3] and recvBuf[4] swapped, CRC with 0x31):
\* its recvBuf holds the bytes as read, and its result is success exactly
\* when crc8_dvb_s2 over all of them is 0.
C20_AlwaysVersion1 ==
    \A s \in Slots :
        LET c == watingResponseQueue.buffer[s]
        IN  c.userInfo \in 1 .. Len(reqs) =>
               /\ c.protocolVer = RCDEVICE_PROTOCOL_VERSION_1_0
               /\ c.protocolVer # RCDEVICE_PROTOCOL_RCSPLIT_VERSION
               /\ Len(c.recvBuf) = c.recvRespLen
               /\ c.result \in { RCDEVICE_RESP_SUCCESS, RCDEVICE_RESP_INCORRECT_CRC } =>
                     /\ c.recvRespLen = c.expectedRespLen
                     /\ (c.result = RCDEVICE_RESP_SUCCESS)
                           <=> (crc8_dvb_s2_update(0, c.recvBuf) = 0)

\* a context of three bytes was completed with success by the protocol 1.0
\* check while another context waits in the ring
C20_Witness ==
    /\ watingResponseQueue.itemCount = 1
    /\ QueueSeq(watingResponseQueue)[1].protocolVer = RCDEVICE_PROTOCOL_VERSION_1_0
    /\ \E s \in Slots :
          /\ watingResponseQueue.buffer[s].result = RCDEVICE_RESP_SUCCESS
          /\ watingResponseQueue.buffer[s].protocolVer = RCDEVICE_PROTOCOL_VERSION_1_0
          /\ watingResponseQueue.buffer[s].recvRespLen = 3
          /\ crc8_dvb_s2_update(0, watingResponseQueue.buffer[s].recvBuf) = 0

=============================================================================
